---- MODULE Spec2Model ----
(***************************************************************************)
(* A model of the screen compositor of the ov pager (Root.Draw and its     *)
(* helpers), of the loader that appends lines to the document while a      *)
(* frame is composed, and of the drawing helpers taken on their own.       *)
(*                                                                         *)
(*   Spec    the draw cycle, one step per loop iteration, interleaved      *)
(*           with the loader and with scrolling between cycles.            *)
(*   SpecFn  reverseContents, wrapContents and noWrapContents applied to   *)
(*           inputs drawn from bounded sets.                               *)
(***************************************************************************)
EXTENDS Integers, Sequences, FiniteSets, TLC

(***************************************************************************)
(* Bounds of the model.                                                    *)
(***************************************************************************)
MaxWidth == 3
MaxHeight == 3
MaxHeader == 2
MaxSpin == 2
MaxWrapCells == 25
MaxWrapWidth == 10
MaxNoWrapCells == 3
MaxNoWrapWidth == 4
MaxScroll == 2
MaxRevChars == 2

VARIABLES
    source,        \* the lines the external byte source will deliver
    nlines,        \* number of lines appended so far (BufEndNum)
    eof,           \* the document has signaled end-of-input (BufEOF)
    vWidth, vHight,
    Header, WrapMode, LineNumMode, AlternateRows, ColumnMode,
    x, yy,         \* horizontal scroll, wrap remainder
    lineNum,       \* the anchor line
    bottomPos,
    pc,            \* position of the render task inside Draw
    hy, y, lX, lY, bottom,   \* Draw's locals
    screen,        \* cells written to the cell-sink in this draw cycle
    marks,         \* per body row: what the row's line read returned
    hmarks,        \* per header row: the line and the cell offset it was drawn from
    status,        \* right segment of the status line
    t,             \* state of the helper under test (SpecFn)
    mpc,           \* position of the main goroutine inside rootCmd.RunE
    Stdout, Stderr,            \* os.Stdout, os.Stderr
    STDOUTPIPE, STDERRPIPE,    \* oviewer.STDOUTPIPE, oviewer.STDERRPIPE
    tmpStdout, tmpStderr,      \* SetRedirect's locals
    defers,        \* SetRedirect's deferred calls, in the order they were deferred
    ver, helpKey, completion, execCommand,   \* the command's flags
    noArgs, openErr, runErr, AfterWrite, Debug,
    written        \* the files the command has written to, in order

viewVars == <<vWidth, vHight, Header, WrapMode, LineNumMode, AlternateRows, ColumnMode, x, yy>>
docVars == <<source, nlines, eof>>
flagVars == <<ver, helpKey, completion, execCommand, noArgs, openErr, runErr, AfterWrite, Debug>>
stdVars == <<Stdout, Stderr, STDOUTPIPE, STDERRPIPE, tmpStdout, tmpStderr, defers>>
mainVars == <<mpc, stdVars, flagVars, written>>
drawVars == <<pc, hy, y, lX, lY, bottom, screen, marks, hmarks, status, bottomPos>>
vars == <<source, nlines, eof, vWidth, vHight, Header, WrapMode, LineNumMode,
          AlternateRows, ColumnMode, x, yy, lineNum, bottomPos, pc, hy, y, lX, lY,
          bottom, screen, marks, hmarks, status, t,
          mpc, Stdout, Stderr, STDOUTPIPE, STDERRPIPE, tmpStdout, tmpStderr, defers,
          ver, helpKey, completion, execCommand, noArgs, openErr, runErr, AfterWrite,
          Debug, written>>

Max(a, b) == IF a >= b THEN a ELSE b
Min(a, b) == IF a <= b THEN a ELSE b

(***************************************************************************)
(* Styles (tcell.Style) and cells.                                         *)
(***************************************************************************)
StyleDefault == [fg |-> "default", bg |-> "default", bold |-> FALSE, reverse |-> FALSE]
Reverse(style, on) == [style EXCEPT !.reverse = on]
Bold(style, on) == [style EXCEPT !.bold = on]
Foreground(style, c) == [style EXCEPT !.fg = c]
Background(style, c) == [style EXCEPT !.bg = c]
HeaderStyle == Bold(StyleDefault, TRUE)
ColorAlternate == "alternate"

\* A cell as the sink receives it (no combining runes occur in the model's alphabet).
SinkCell(mainc, style) == [mainc |-> mainc, style |-> style]
\* SetContent: the write is recorded under its coordinates, inside the viewport or not.
SetContent(scr, cx, cy, mainc, style) ==
    [c \in DOMAIN scr \cup {<<cx, cy>>} |->
        IF c = <<cx, cy>> THEN SinkCell(mainc, style) ELSE scr[c]]

(***************************************************************************)
(* Content layout: a line is a sequence of characters; "W" is a wide       *)
(* character of three bytes and two columns, "T" a tab, every other        *)
(* character one byte and one column.                                      *)
(***************************************************************************)
TabWidth == 2
ByteLen(c) == IF c = "W" THEN 3 ELSE 1
Content(mainc, width) == [mainc |-> mainc, width |-> width, style |-> StyleDefault]
CellsOf(c, col, tabWidth) ==
    IF c = "W" THEN <<Content("W", 2), Content("", 0)>>
    ELSE IF c = "T"
         THEN IF tabWidth > 0
              THEN [k \in 1..(tabWidth - (col % tabWidth)) |-> Content(" ", 1)]
              ELSE <<Content("T", 1)>>
         ELSE <<Content(c, 1)>>

RECURSIVE layoutFrom(_, _, _, _, _)
layoutFrom(line, i, tabWidth, contents, byteMap) ==
    IF i > Len(line)
    THEN [contents |-> contents, byteMap |-> Append(byteMap, Len(contents))]
    ELSE layoutFrom(line, i + 1, tabWidth,
                    contents \o CellsOf(line[i], Len(contents), tabWidth),
                    byteMap \o [k \in 1..ByteLen(line[i]) |-> Len(contents)])

\* byteMap[o + 1] is the cell index (from 0) of the byte at offset o.
strToContents(line, tabWidth) == layoutFrom(line, 1, tabWidth, <<>>, <<>>)

RECURSIVE ByteCount(_)
ByteCount(line) == IF line = <<>> THEN 0 ELSE ByteLen(Head(line)) + ByteCount(Tail(line))

(***************************************************************************)
(* reverseContents                                                         *)
(***************************************************************************)
reverseContentsToggle(lc, start, end) ==
    [lc EXCEPT !.contents =
        [n \in 1..Len(lc.contents) |->
            IF lc.byteMap[start + 1] <= n - 1 /\ n - 1 < lc.byteMap[end + 1]
            THEN [lc.contents[n] EXCEPT !.style = Reverse(@, ~@.reverse)]
            ELSE lc.contents[n]]]

reverseContents(lc, start, end) ==
    [lc EXCEPT !.contents =
        [n \in 1..Len(lc.contents) |->
            IF lc.byteMap[start + 1] <= n - 1 /\ n - 1 < lc.byteMap[end + 1]
            THEN [lc.contents[n] EXCEPT !.style = Reverse(@, TRUE)]
            ELSE lc.contents[n]]]

(***************************************************************************)
(* wrapContents: returns the next drawing position and the screen.         *)
(***************************************************************************)
RECURSIVE wrapLoop(_, _, _, _, _, _, _, _)
wrapLoop(wx, wy, wlX, wlY, contents, startX, width, scr) ==
    IF wlX + wx >= Len(contents)
    THEN [lX |-> 0, lY |-> wlY + 1, screen |-> scr]
    ELSE IF wx + contents[wlX + wx + 1].width + startX > width
         THEN [lX |-> wlX + wx, lY |-> wlY, screen |-> scr]
         ELSE wrapLoop(wx + 1, wy, wlX, wlY, contents, startX, width,
                       SetContent(scr, wx + startX, wy,
                                  contents[wlX + wx + 1].mainc, contents[wlX + wx + 1].style))

RECURSIVE wrapLoopGE(_, _, _, _, _, _, _, _)
wrapLoopGE(wx, wy, wlX, wlY, contents, startX, width, scr) ==
    IF wlX + wx >= Len(contents)
    THEN [lX |-> 0, lY |-> wlY + 1, screen |-> scr]
    ELSE IF wx + contents[wlX + wx + 1].width + startX >= width
         THEN [lX |-> wlX + wx, lY |-> wlY, screen |-> scr]
         ELSE wrapLoopGE(wx + 1, wy, wlX, wlY, contents, startX, width,
                         SetContent(scr, wx + startX, wy,
                                    contents[wlX + wx + 1].mainc, contents[wlX + wx + 1].style))

wrapContentsGE(wy, wlX, wlY, contents, startX, width, scr) ==
    wrapLoopGE(0, wy, wlX, wlY, contents, startX, width, scr)

wrapContents(wy, wlX, wlY, contents, startX, width, scr) ==
    wrapLoop(0, wy, wlX, wlY, contents, startX, width, scr)

(***************************************************************************)
(* noWrapContents                                                          *)
(***************************************************************************)
RECURSIVE noWrapLoop(_, _, _, _, _, _, _)
noWrapLoop(nx, ny, nlX, contents, startX, width, scr) ==
    IF ~(nx + startX < width) THEN scr
    ELSE IF nlX + nx < 0
         THEN noWrapLoop(nx + 1, ny, nlX, contents, startX, width, scr)
         ELSE IF nlX + nx >= Len(contents) THEN scr
              ELSE noWrapLoop(nx + 1, ny, nlX, contents, startX, width,
                              SetContent(scr, nx + startX, ny,
                                         contents[nlX + nx + 1].mainc,
                                         contents[nlX + nx + 1].style))

\* The loop bound tested without the gutter: x < vWidth.
RECURSIVE noWrapLoopNoGutter(_, _, _, _, _, _, _)
noWrapLoopNoGutter(nx, ny, nlX, contents, startX, width, scr) ==
    IF ~(nx < width) THEN scr
    ELSE IF nlX + nx < 0
         THEN noWrapLoopNoGutter(nx + 1, ny, nlX, contents, startX, width, scr)
         ELSE IF nlX + nx >= Len(contents) THEN scr
              ELSE noWrapLoopNoGutter(nx + 1, ny, nlX, contents, startX, width,
                                      SetContent(scr, nx + startX, ny,
                                                 contents[nlX + nx + 1].mainc,
                                                 contents[nlX + nx + 1].style))

noWrapContentsNoGutter(ny, nlX, nlY, contents, minStartX, startX, width, scr) ==
    [lX |-> Max(nlX, minStartX), lY |-> nlY + 1,
     screen |-> noWrapLoopNoGutter(0, ny, Max(nlX, minStartX), contents, startX, width, scr)]

noWrapContents(ny, nlX, nlY, contents, minStartX, startX, width, scr) ==
    [lX |-> Max(nlX, minStartX), lY |-> nlY + 1,
     screen |-> noWrapLoop(0, ny, Max(nlX, minStartX), contents, startX, width, scr)]

(***************************************************************************)
(* SpecFn: the helpers applied to inputs drawn from bounded sets.          *)
(***************************************************************************)
NoScreen == [c \in {} |-> SinkCell("", StyleDefault)]
MaxGutter == 2

TIdle == [op |-> "idle", calls |-> 0, done |-> TRUE, lc |-> strToContents(<<>>, TabWidth),
          start |-> 0, end |-> 0, hist |-> <<>>, contents |-> <<>>, startX |-> 0,
          width |-> 0, minStartX |-> 0, lX |-> 0, lY |-> 0, y |-> 0, rows |-> <<>>]

RevChars == {"a", "W", "T"}
RevLines == UNION {[1..n -> RevChars] : n \in 0..MaxRevChars}
\* Styles a cell may carry before a highlight is applied.
WithPattern(lc, pat) ==
    [lc EXCEPT !.contents =
        [n \in 1..Len(lc.contents) |->
            [lc.contents[n] EXCEPT !.style =
                Reverse(@, pat = "all" \/ (pat = "odd" /\ n % 2 = 1))]]]

TReverseInit ==
    {[TIdle EXCEPT !.op = "reverse", !.done = FALSE, !.lc = WithPattern(strToContents(l, tw), pat),
                   !.start = s, !.end = e, !.hist = <<WithPattern(strToContents(l, tw), pat)>>] :
        <<l, tw, pat, s, e>> \in
            {q \in RevLines \X {0, TabWidth} \X {"none", "all", "odd"}
                   \X (0..(3 * MaxRevChars)) \X (0..(3 * MaxRevChars)) :
                q[4] <= q[5] /\ q[5] <= ByteCount(q[1])}}

NarrowCells(n) == [k \in 1..n |-> Content(k, 1)]

TWrapInit ==
    {[TIdle EXCEPT !.op = "wrap", !.done = FALSE, !.contents = NarrowCells(n),
                   !.startX = sx, !.width = w] :
        <<n, w, sx>> \in (0..MaxWrapCells) \X (0..MaxWrapWidth) \X (0..MaxGutter)}

TNoWrapInit ==
    {[TIdle EXCEPT !.op = "nowrap", !.done = FALSE, !.contents = NarrowCells(n),
                   !.startX = sx, !.width = w, !.lX = l, !.minStartX = m] :
        <<n, w, sx, l, m>> \in (0..MaxNoWrapCells) \X (0..MaxNoWrapWidth) \X (0..MaxGutter)
                               \X ((-MaxScroll)..MaxScroll) \X ((-MaxScroll)..MaxScroll)}

ApplyReverse ==
    /\ t.op = "reverse" /\ t.calls < 2
    /\ t' = [t EXCEPT !.lc = reverseContents(t.lc, t.start, t.end),
                      !.calls = @ + 1,
                      !.hist = Append(@, reverseContents(t.lc, t.start, t.end))]

\* One screen row of a wrapped line, then the next row, as Draw's body loop calls it.
ApplyWrap ==
    /\ t.op = "wrap" /\ ~t.done /\ t.calls <= MaxWrapCells
    /\ LET r == wrapContents(t.y, t.lX, t.lY, t.contents, t.startX, t.width, NoScreen)
       IN t' = [t EXCEPT !.lX = r.lX, !.lY = r.lY, !.y = @ + 1, !.calls = @ + 1,
                         !.done = r.lY # t.lY,
                         !.rows = Append(@, [lX |-> r.lX, lY |-> r.lY, y |-> t.y,
                                             screen |-> r.screen])]

ApplyNoWrap ==
    /\ t.op = "nowrap" /\ ~t.done
    /\ LET r == noWrapContents(t.y, t.lX, t.lY, t.contents, t.minStartX, t.startX,
                               t.width, NoScreen)
       IN t' = [t EXCEPT !.calls = @ + 1, !.done = TRUE,
                         !.rows = Append(@, [lX |-> r.lX, lY |-> r.lY, y |-> t.y,
                                             screen |-> r.screen])]

(***************************************************************************)
(* The document (chunk store) as the render task reads it.                 *)
(***************************************************************************)
MaxLines == 3
LineSet == << <<"a", "b", "c", "d">>, <<"e">>, <<"W", ",", "f">>, <<>> >>
\* The n lines the byte source delivers, starting at line k of LineSet.
SourceDoc(k, n) == [i \in 1..n |-> LineSet[((k + i - 1) % Len(LineSet)) + 1]]
Sources == {SourceDoc(0, 1)} \cup {SourceDoc(k, MaxLines) : k \in 0..1}

BufEndNum == nlines
BufEOF == eof
GetLine(n) == IF n >= 0 /\ n < nlines THEN source[n + 1] ELSE <<>>
LineErr(n) == n < 0 \/ n >= nlines
lineToContents(n, tabWidth) == strToContents(source[n + 1], tabWidth)

(***************************************************************************)
(* Column position finder: the byte span of the columnNum-th field.        *)
(***************************************************************************)
ColumnDelimiter == ","
ColumnNum == 1
ByteOffset(line, i) == ByteCount(SubSeq(line, 1, i - 1))
DelimIdx(line) == {i \in 1..Len(line) : line[i] = ColumnDelimiter}
\* The index of the k-th delimiter of the line (k from 1).
NthDelim(line, k) ==
    CHOOSE i \in DelimIdx(line) : Cardinality({j \in DelimIdx(line) : j <= i}) = k
rangePosition(line, columnNum) ==
    IF columnNum > Cardinality(DelimIdx(line))
    THEN <<ByteCount(line), ByteCount(line)>>
    ELSE <<IF columnNum = 0 THEN 0 ELSE ByteOffset(line, NthDelim(line, columnNum)) + 1,
           IF columnNum = Cardinality(DelimIdx(line)) THEN ByteCount(line)
           ELSE ByteOffset(line, NthDelim(line, columnNum + 1))>>

(***************************************************************************)
(* View state that Draw reads and this repository's files do not set.      *)
(***************************************************************************)
GutterWidth == 2
startX == IF LineNumMode THEN GutterWidth ELSE 0
MaxLeft == 1
minStartX == 0 - MaxLeft
statusPos == vHight

\* Screen rows one wrapped line takes from cell offset wlX on.
RECURSIVE wrapRows(_, _)
wrapRows(contents, wlX) ==
    LET r == wrapContents(0, wlX, 0, contents, startX, vWidth, [c \in {} |-> 0])
    IN IF r.lY = 1 \/ r.lX = wlX THEN 1 ELSE 1 + wrapRows(contents, r.lX)
LineRows(n) == IF WrapMode THEN wrapRows(lineToContents(n, TabWidth).contents, 0) ELSE 1

RECURSIVE wrapHeaderLen(_)
wrapHeaderLen(n) ==
    IF n <= 0 THEN 0
    ELSE wrapHeaderLen(n - 1) + (IF LineErr(n - 1) THEN 0 ELSE LineRows(n - 1))
HeaderLen == IF WrapMode THEN wrapHeaderLen(Header) ELSE Header

\* The first line of the body when the last line of num lines sits on the last row.
RECURSIVE bottomWalk(_, _)
bottomWalk(n, rowsLeft) ==
    IF n <= 0 THEN 0
    ELSE IF rowsLeft - LineRows(n - 1) <= 0 THEN n - 1
         ELSE bottomWalk(n - 1, rowsLeft - LineRows(n - 1))
bottomLineNum(num) == bottomWalk(num, vHight - HeaderLen) - 1

(***************************************************************************)
(* Draw                                                                    *)
(***************************************************************************)
ResetScreen ==
    [c \in (0..(vWidth - 1)) \X (0..(vHight - 1)) |-> SinkCell(" ", StyleDefault)]

\* Lines 23-28: the upper clamp, then the lower one.
ClampUpperOnly(ln, b) == IF ln > b + 1 THEN b + 1 ELSE ln
ClampLineNum(ln, b) ==
    IF (IF ln > b + 1 THEN b + 1 ELSE ln) < 0 THEN 0
    ELSE (IF ln > b + 1 THEN b + 1 ELSE ln)

headerStyle(contents) ==
    [i \in 1..Len(contents) |-> [contents[i] EXCEPT !.style = HeaderStyle]]

RECURSIVE setContentString(_, _, _, _)
setContentString(scr, vx, vy, contents) ==
    IF contents = <<>> THEN scr
    ELSE setContentString(
            SetContent(scr, vx + Len(contents) - 1, vy,
                       contents[Len(contents)].mainc, contents[Len(contents)].style),
            vx, vy, SubSeq(contents, 1, Len(contents) - 1))

\* fmt.Sprintf("%*d", width, v): decimal digits, right-aligned in width columns.
DigitChar == <<"0", "1", "2", "3", "4", "5", "6", "7", "8", "9">>
RECURSIVE Digits(_)
Digits(v) == IF v < 10 THEN <<DigitChar[v + 1]>> ELSE Digits(v \div 10) \o <<DigitChar[(v % 10) + 1]>>
SignedDigits(v) == IF v < 0 THEN <<"-">> \o Digits(0 - v) ELSE Digits(v)
SprintfPadInt(width, v) ==
    [k \in 1..(width - Len(SignedDigits(v))) |-> " "] \o SignedDigits(v)

NoMarks == [r \in {} |-> [line |-> 0, eofRead |-> FALSE]]
NoHMarks == [r \in {} |-> [line |-> 0, lX |-> 0]]

DrawBegin ==
    /\ pc = "idle"
    /\ marks' = NoMarks /\ hmarks' = NoHMarks
    /\ IF BufEndNum = 0 \/ vHight = 0
       THEN /\ lineNum' = 0
            /\ screen' = NoScreen
            /\ pc' = "status"
            /\ UNCHANGED <<hy, y, lX, lY, bottom>>
       ELSE /\ screen' = ResetScreen
            /\ bottom' = bottomLineNum(BufEndNum) - Header
            /\ lineNum' = ClampLineNum(lineNum, bottomLineNum(BufEndNum) - Header)
            /\ lY' = 0 /\ lX' = 0 /\ hy' = 0
            /\ pc' = "header"
            /\ UNCHANGED y
    /\ UNCHANGED <<docVars, viewVars, bottomPos, status, t, mainVars>>

\* The header line lY as the header loop prepares it (lines 36-49).
HeaderContents(n) ==
    LET lc == [lineToContents(n, TabWidth) EXCEPT !.contents = headerStyle(@)]
    IN IF ColumnMode
       THEN reverseContents(lc, rangePosition(GetLine(n), ColumnNum)[1],
                            rangePosition(GetLine(n), ColumnNum)[2]).contents
       ELSE lc.contents

\* The header line read relative to the anchor, as the body's lines are.
HeaderDrawAnchored(n) ==
    IF WrapMode
    THEN wrapContents(hy, lX, lY, HeaderContents(Min(lineNum + n, nlines - 1)), startX, vWidth, screen)
    ELSE noWrapContents(hy, x, lY, HeaderContents(Min(lineNum + n, nlines - 1)), minStartX, startX, vWidth,
                        screen)

HeaderDraw(n) ==
    IF WrapMode
    THEN wrapContents(hy, lX, lY, HeaderContents(n), startX, vWidth, screen)
    ELSE noWrapContents(hy, x, lY, HeaderContents(n), minStartX, startX, vWidth, screen)

\* One iteration of the header loop (lines 35-56).
HeaderStep ==
    /\ pc = "header" /\ lY < Header
    /\ IF LineErr(lY)
       THEN /\ hy < vHight + MaxSpin
            /\ hy' = hy + 1
            /\ UNCHANGED <<lX, lY, screen, hmarks>>
       ELSE /\ (HeaderDraw(lY).lY = lY /\ HeaderDraw(lY).lX = lX) => hy < vHight + MaxSpin
            /\ screen' = HeaderDraw(lY).screen
            /\ lX' = HeaderDraw(lY).lX
            /\ lY' = HeaderDraw(lY).lY
            /\ hy' = hy + 1
            /\ hmarks' = [r \in DOMAIN hmarks \cup {hy} |->
                            IF r = hy THEN [line |-> lY, lX |-> lX] ELSE hmarks[r]]
    /\ UNCHANGED <<docVars, viewVars, lineNum, bottomPos, pc, y, bottom, marks, status, t, mainVars>>

\* The header loop ends; the body starts below the header (lines 58-60).
HeaderExit ==
    /\ pc = "header" /\ ~(lY < Header)
    /\ lX' = yy * vWidth
    /\ y' = HeaderLen
    /\ pc' = "body"
    /\ UNCHANGED <<docVars, viewVars, lineNum, bottomPos, hy, lY, bottom, screen, marks, hmarks,
                   status, t, mainVars>>

\* The body line as the body loop prepares it (lines 68-86); no search is compiled.
BodyContents(n) ==
    LET lc == [lineToContents(n, TabWidth) EXCEPT !.contents =
                  [i \in 1..Len(@) |-> [@[i] EXCEPT !.style = Reverse(@, FALSE)]]]
    IN IF ColumnMode
       THEN reverseContents(lc, rangePosition(GetLine(n), ColumnNum)[1],
                            rangePosition(GetLine(n), ColumnNum)[2]).contents
       ELSE lc.contents

\* Lines 89-95.
GutterDraw(scr) ==
    IF LineNumMode
    THEN setContentString(scr, 0, y,
            [i \in 1..Len(SprintfPadInt(startX - 1, lineNum + lY - Header + 1)) |->
                [strToContents(SprintfPadInt(startX - 1, lineNum + lY - Header + 1),
                               TabWidth).contents[i] EXCEPT !.style = Bold(StyleDefault, TRUE)]])
    ELSE scr

\* Lines 97-102.
BodyDraw(scr) ==
    IF WrapMode
    THEN wrapContents(y, lX, lY, BodyContents(lineNum + lY), startX, vWidth, scr)
    ELSE noWrapContents(y, x, lY, BodyContents(lineNum + lY), minStartX, startX, vWidth, scr)

\* Lines 104-114.
AlternateDraw(scr) ==
    IF AlternateRows
    THEN [c \in DOMAIN scr |->
            IF c[2] = y /\ c[1] >= 0 /\ c[1] < vWidth
            THEN [scr[c] EXCEPT !.style =
                    Background(@, IF (lineNum + lY) % 2 = 1 THEN ColorAlternate ELSE "default")]
            ELSE scr[c]]
    ELSE scr

\* Lines 62-66.
EOFRow(scr) == SetContent(scr, 0, y, "~", Foreground(StyleDefault, "gray"))

Mark(n, e) == [r \in DOMAIN marks \cup {y} |-> IF r = y THEN [line |-> n, eofRead |-> e] ELSE marks[r]]

\* One iteration of the body loop (lines 60-116).
BodyStep ==
    /\ pc = "body" /\ y < vHight
    /\ IF LineErr(lineNum + lY)
       THEN /\ screen' = EOFRow(screen)
            /\ marks' = Mark(lineNum + lY, TRUE)
            /\ UNCHANGED <<lX, lY>>
       ELSE /\ screen' = AlternateDraw(BodyDraw(GutterDraw(screen)).screen)
            /\ lX' = BodyDraw(GutterDraw(screen)).lX
            /\ lY' = BodyDraw(GutterDraw(screen)).lY
            /\ marks' = Mark(lineNum + lY, FALSE)
    /\ y' = y + 1
    /\ UNCHANGED <<docVars, viewVars, lineNum, bottomPos, pc, hy, bottom, hmarks, status, t, mainVars>>

\* Lines 118-122.
BodyExit ==
    /\ pc = "body" /\ ~(y < vHight)
    /\ bottomPos' = IF lY > 0 THEN lineNum + lY - 1 ELSE lineNum + 1
    /\ pc' = "status"
    /\ UNCHANGED <<docVars, viewVars, lineNum, hy, y, lX, lY, bottom, screen, marks, hmarks, status, t, mainVars>>

\* fmt.Sprintf("(%d/%d%s)", lineNum, BufEndNum, next)
RightStatusInverted ==
    <<"(">> \o SignedDigits(lineNum) \o <<"/">> \o SignedDigits(BufEndNum)
        \o (IF BufEOF THEN <<".", ".", ".">> ELSE <<>>) \o <<")">>
RightStatus ==
    <<"(">> \o SignedDigits(lineNum) \o <<"/">> \o SignedDigits(BufEndNum)
        \o (IF ~BufEOF THEN <<".", ".", ".">> ELSE <<>>) \o <<")">>

\* statusDraw: the row is blanked and the right segment is right-aligned on it.
statusDraw ==
    /\ pc = "status"
    /\ status' = RightStatus
    /\ screen' = setContentString(
                    [c \in DOMAIN screen \cup ((0..(vWidth - 1)) \X {statusPos}) |->
                        IF c[2] = statusPos /\ c[1] >= 0 /\ c[1] < vWidth
                        THEN SinkCell("", StyleDefault) ELSE screen[c]],
                    vWidth - Len(RightStatus), statusPos,
                    strToContents(RightStatus, 0 - 1).contents)
    /\ pc' = "show"
    /\ UNCHANGED <<docVars, viewVars, lineNum, bottomPos, hy, y, lX, lY, bottom, marks, hmarks, t, mainVars>>

\* Show hands the frame to the sink; Draw returns and its locals are gone.
Show ==
    /\ pc = "show"
    /\ pc' = "idle"
    /\ screen' = NoScreen /\ marks' = NoMarks /\ hmarks' = NoHMarks
    /\ hy' = 0 /\ y' = 0 /\ lX' = 0 /\ lY' = 0 /\ bottom' = 0
    /\ UNCHANGED <<docVars, viewVars, lineNum, bottomPos, status, t, mainVars>>

(***************************************************************************)
(* The loader and the user.                                                *)
(***************************************************************************)
LoaderAppend ==
    /\ ~eof /\ nlines < Len(source)
    /\ nlines' = nlines + 1
    /\ UNCHANGED <<source, eof, viewVars, lineNum, drawVars, t, mainVars>>

LoaderEOF ==
    /\ ~eof /\ nlines = Len(source)
    /\ eof' = TRUE
    /\ UNCHANGED <<source, nlines, viewVars, lineNum, drawVars, t, mainVars>>

\* Between draw cycles the input handler moves the anchor anywhere.
Scroll ==
    /\ pc = "idle"
    /\ \E n \in {0 - 1, 0, 1, MaxLines + 1} : lineNum' = n
    /\ lineNum' # lineNum
    /\ UNCHANGED <<docVars, viewVars, drawVars, t, mainVars>>

\* A nil *os.File: Fd() of a nil file is the invalid descriptor, which is no terminal.
Nil == [fd |-> 0 - 1, term |-> FALSE]
\* term.IsTerminal(int(f.Fd()))
IsTerminal(f) == f.term

\* The command has not been started.
MainIdle ==
    /\ mpc = "none" /\ Stdout = Nil /\ Stderr = Nil
    /\ STDOUTPIPE = Nil /\ STDERRPIPE = Nil /\ tmpStdout = Nil /\ tmpStderr = Nil
    /\ defers = <<>> /\ written = <<>>
    /\ ver = FALSE /\ helpKey = FALSE /\ completion = FALSE /\ execCommand = FALSE
    /\ noArgs = FALSE /\ openErr = FALSE /\ runErr = FALSE
    /\ AfterWrite = FALSE /\ Debug = FALSE

Init ==
    /\ source \in Sources
    /\ nlines = 0 /\ eof = FALSE
    /\ vWidth \in 0..MaxWidth /\ vHight \in 0..MaxHeight
    /\ Header \in 0..MaxHeader
    /\ WrapMode \in BOOLEAN /\ LineNumMode \in BOOLEAN
    /\ AlternateRows \in BOOLEAN
    /\ ColumnMode \in (IF LineNumMode \/ AlternateRows THEN {FALSE} ELSE BOOLEAN)
    \* Draw reads yy only in wrap mode and x only in no-wrap mode.
    /\ x \in (IF WrapMode THEN {0} ELSE {0 - MaxLeft - 1, 0, 1})
    /\ yy \in (IF WrapMode THEN 0..1 ELSE {0})
    /\ lineNum = 0 /\ bottomPos = 0
    /\ pc = "idle" /\ hy = 0 /\ y = 0 /\ lX = 0 /\ lY = 0 /\ bottom = 0
    /\ screen = NoScreen /\ marks = NoMarks /\ hmarks = NoHMarks /\ status = <<>>
    /\ t = TIdle
    /\ MainIdle

Next ==
    \/ DrawBegin \/ HeaderStep \/ HeaderExit \/ BodyStep \/ BodyExit \/ statusDraw \/ Show
    \/ LoaderAppend \/ LoaderEOF \/ Scroll

Spec == Init /\ [][Next]_vars

InitFn ==
    /\ source = <<>> /\ nlines = 0 /\ eof = FALSE
    /\ vWidth = 0 /\ vHight = 0 /\ Header = 0
    /\ WrapMode = FALSE /\ LineNumMode = FALSE /\ AlternateRows = FALSE /\ ColumnMode = FALSE
    /\ x = 0 /\ yy = 0 /\ lineNum = 0 /\ bottomPos = 0
    /\ pc = "fn" /\ hy = 0 /\ y = 0 /\ lX = 0 /\ lY = 0 /\ bottom = 0
    /\ screen = NoScreen /\ marks = NoMarks /\ hmarks = NoHMarks /\ status = <<>>
    /\ t \in TReverseInit \cup TWrapInit \cup TNoWrapInit
    /\ MainIdle

FnVarsUnchanged == UNCHANGED <<docVars, viewVars, lineNum, drawVars, mainVars>>
NextFn ==
    \/ ApplyReverse /\ FnVarsUnchanged
    \/ ApplyWrap /\ FnVarsUnchanged
    \/ ApplyNoWrap /\ FnVarsUnchanged

SpecFn == InitFn /\ [][NextFn]_vars

(***************************************************************************)
(* The command: rootCmd.RunE, SetRedirect and ExecCommand of main.go.      *)
(***************************************************************************)
\* The files a process can be started with as standard output and error.
StdFiles(n) == {[fd |-> n, term |-> b] : b \in BOOLEAN}

\* fmt.Fprintln(f, ...), fmt.Printf(...): a write to a nil file is lost.
WriteTo(f) == IF f = Nil THEN written ELSE Append(written, f.fd)

\* RunE up to the call of SetRedirect (lines 55-73).
RunEFlags ==
    /\ mpc = "RunE"
    /\ written' = (IF ver \/ helpKey \/ completion
                   THEN (IF Debug THEN Append(WriteTo(Stderr), Stdout.fd)
                                  ELSE WriteTo(Stdout))
                   ELSE (IF Debug THEN WriteTo(Stderr) ELSE written))
    /\ mpc' = IF ver \/ helpKey \/ completion THEN "return" ELSE "SetRedirect"
    /\ UNCHANGED <<stdVars, flagVars>>

\* SetRedirect, the test of standard output (lines 169-177).
SetRedirectStdout ==
    /\ mpc = "SetRedirect"
    /\ IF IsTerminal(Stdout)
       THEN /\ tmpStdout' = Stdout
            /\ Stdout' = Nil
            /\ defers' = Append(defers, "Stdout")
            /\ UNCHANGED STDOUTPIPE
       ELSE /\ STDOUTPIPE' = Stdout
            /\ UNCHANGED <<Stdout, tmpStdout, defers>>
    /\ mpc' = "SetRedirect2"
    /\ UNCHANGED <<Stderr, STDERRPIPE, tmpStderr, flagVars, written>>

\* SetRedirect, the second test, again of os.Stdout (lines 179-187).
SetRedirectStderr ==
    /\ mpc = "SetRedirect2"
    /\ IF IsTerminal(Stdout)
       THEN /\ tmpStderr' = Stderr
            /\ Stderr' = Nil
            /\ defers' = Append(defers, "Stderr")
            /\ UNCHANGED STDERRPIPE
       ELSE /\ STDERRPIPE' = Stderr
            /\ UNCHANGED <<Stderr, tmpStderr, defers>>
    /\ mpc' = "SetRedirectEnd"
    /\ UNCHANGED <<Stdout, STDOUTPIPE, tmpStdout, flagVars, written>>

\* SetRedirect returns (line 188): its deferred calls run and its locals are gone.
SetRedirectReturn ==
    /\ mpc = "SetRedirectEnd"
    /\ Stdout' = (IF \E k \in 1..Len(defers) : defers[k] = "Stdout" THEN tmpStdout ELSE Stdout)
    /\ Stderr' = (IF \E k \in 1..Len(defers) : defers[k] = "Stderr" THEN tmpStderr ELSE Stderr)
    /\ defers' = <<>> /\ tmpStdout' = Nil /\ tmpStderr' = Nil
    /\ mpc' = "Open"
    /\ UNCHANGED <<STDOUTPIPE, STDERRPIPE, flagVars, written>>

\* oviewer.Open, or ExecCommand up to its call of Run (lines 77-85, 126-147).
OpenViewer ==
    /\ mpc = "Open"
    /\ mpc' = IF (execCommand /\ noArgs) \/ openErr THEN "return" ELSE "Run"
    /\ UNCHANGED <<stdVars, flagVars, written>>

\* ov.Run() is called (lines 87, 149).
RunStart ==
    /\ mpc = "Run"
    /\ mpc' = "running"
    /\ UNCHANGED <<stdVars, flagVars, written>>

\* ov.Run() returns (lines 87-89, 149-151).
RunReturn ==
    /\ mpc = "running"
    /\ mpc' = IF runErr THEN "return" ELSE "AfterWrite"
    /\ UNCHANGED <<stdVars, flagVars, written>>

\* WriteOriginal and WriteLog after the run (lines 91-97, 153-161).
AfterRun ==
    /\ mpc = "AfterWrite"
    /\ mpc' = "return"
    /\ UNCHANGED <<stdVars, flagVars, written>>

InitMain ==
    /\ source = <<>> /\ nlines = 0 /\ eof = FALSE
    /\ vWidth = 0 /\ vHight = 0 /\ Header = 0
    /\ WrapMode = FALSE /\ LineNumMode = FALSE /\ AlternateRows = FALSE /\ ColumnMode = FALSE
    /\ x = 0 /\ yy = 0 /\ lineNum = 0 /\ bottomPos = 0
    /\ pc = "main" /\ hy = 0 /\ y = 0 /\ lX = 0 /\ lY = 0 /\ bottom = 0
    /\ screen = NoScreen /\ marks = NoMarks /\ hmarks = NoHMarks /\ status = <<>>
    /\ t = TIdle
    /\ mpc = "RunE"
    /\ Stdout \in StdFiles(1) /\ Stderr \in StdFiles(2)
    /\ STDOUTPIPE = Nil /\ STDERRPIPE = Nil /\ tmpStdout = Nil /\ tmpStderr = Nil
    /\ defers = <<>> /\ written = <<>>
    /\ ver \in BOOLEAN /\ helpKey \in BOOLEAN /\ completion \in BOOLEAN
    /\ execCommand \in BOOLEAN /\ noArgs \in BOOLEAN
    /\ openErr \in BOOLEAN /\ runErr \in BOOLEAN
    /\ AfterWrite \in BOOLEAN /\ Debug \in BOOLEAN

MainVarsUnchanged == UNCHANGED <<docVars, viewVars, lineNum, drawVars, t>>
NextMain ==
    \/ RunEFlags /\ MainVarsUnchanged
    \/ SetRedirectStdout /\ MainVarsUnchanged
    \/ SetRedirectStderr /\ MainVarsUnchanged
    \/ SetRedirectReturn /\ MainVarsUnchanged
    \/ OpenViewer /\ MainVarsUnchanged
    \/ RunStart /\ MainVarsUnchanged
    \/ RunReturn /\ MainVarsUnchanged
    \/ AfterRun /\ MainVarsUnchanged

SpecMain == InitMain /\ [][NextMain]_vars

(***************************************************************************)
(* Properties of the helpers (checked under SpecFn).                       *)
(***************************************************************************)
\* The cells of t.lc that the range [t.start, t.end) covers.
InRange(n) == t.lc.byteMap[t.start + 1] <= n - 1 /\ n - 1 < t.lc.byteMap[t.end + 1]

\* C1 as stated: reversing [start, end) twice restores the reversed flag of every cell.
C1_DoubleReverseRestores ==
    (t.op = "reverse" /\ t.calls = 2) =>
        \A n \in 1..Len(t.lc.contents) :
            t.lc.contents[n].style.reverse = t.hist[1].contents[n].style.reverse

\* C1 amended: reverseContents sets the reversed flag (it does not flip it): after one
\* call and after two, every cell of the range is reversed, whatever it was before,
\* every other cell and every other attribute is as it was, and the second call
\* changes nothing.
C1_ReverseSetsAndIsIdempotent ==
    (t.op = "reverse" /\ t.calls >= 1) =>
        /\ \A n \in 1..Len(t.lc.contents) :
              IF InRange(n)
              THEN t.lc.contents[n] = [t.hist[1].contents[n] EXCEPT !.style.reverse = TRUE]
              ELSE t.lc.contents[n] = t.hist[1].contents[n]
        /\ t.lc.byteMap = t.hist[1].byteMap
        /\ t.calls = 2 => t.hist[3] = t.hist[2]

C1_Witness ==
    /\ t.op = "reverse" /\ t.calls = 2
    /\ \E n \in 1..Len(t.lc.contents) : InRange(n) /\ ~t.hist[1].contents[n].style.reverse
    /\ \E n \in 1..Len(t.lc.contents) : InRange(n) /\ t.hist[1].contents[n].style.reverse
    /\ \E n \in 1..Len(t.lc.contents) : ~InRange(n)

CeilDiv(n, w) == (n + w - 1) \div w

\* C5: a line of n >= 1 width-1 cells drawn from offset 0 in a usable width w >= 1
\* takes exactly ceil(n/w) rows: every call but the last writes w cells, keeps the
\* line index and advances the offset by w; the last call writes the remainder,
\* resets the offset to 0 and advances the line index by one.
C5_WrapRows ==
    (t.op = "wrap" /\ Len(t.contents) >= 1 /\ t.width - t.startX >= 1) =>
        LET n == Len(t.contents)
            w == t.width - t.startX
            need == CeilDiv(n, w)
        IN /\ Len(t.rows) <= need
           /\ t.done <=> Len(t.rows) = need
           /\ \A k \in 1..Len(t.rows) :
                LET cnt == IF k < need THEN w ELSE n - (k - 1) * w
                IN /\ t.rows[k].y = k - 1
                   /\ DOMAIN t.rows[k].screen = {<<t.startX + j, k - 1>> : j \in 0..(cnt - 1)}
                   /\ \A j \in 0..(cnt - 1) :
                        t.rows[k].screen[<<t.startX + j, k - 1>>].mainc
                            = t.contents[(k - 1) * w + j + 1].mainc
                   /\ t.rows[k].lX = (IF k < need THEN k * w ELSE 0)
                   /\ t.rows[k].lY = (IF k < need THEN 0 ELSE 1)

C5_Witness ==
    /\ t.op = "wrap" /\ t.done /\ Len(t.contents) = 25 /\ t.width = 10 /\ t.startX = 0
    /\ Len(t.rows) = 3
    /\ Cardinality(DOMAIN t.rows[1].screen) = 10
    /\ Cardinality(DOMAIN t.rows[2].screen) = 10
    /\ Cardinality(DOMAIN t.rows[3].screen) = 5
    /\ t.rows[2].lY = 0 /\ t.rows[3].lY = 1

\* C7: noWrapContents writes only at columns startX <= c < vWidth of its row, and
\* the call advances the line index by exactly one.
C7_NoWrapColumns ==
    (t.op = "nowrap" /\ t.calls = 1) =>
        /\ \A c \in DOMAIN t.rows[1].screen :
              c[2] = t.y /\ t.startX <= c[1] /\ c[1] < t.width
        /\ t.rows[1].lY = t.lY + 1

C7_Witness ==
    /\ t.op = "nowrap" /\ t.calls = 1
    /\ t.lX < t.minStartX /\ t.minStartX < 0 /\ t.startX > 0
    /\ Cardinality(DOMAIN t.rows[1].screen) >= 2
    /\ Len(t.contents) + t.startX - t.minStartX > t.width

(***************************************************************************)
(* Properties of the draw cycle (checked under Spec).                      *)
(***************************************************************************)
Blank == SinkCell(" ", StyleDefault)
Tilde == SinkCell("~", Foreground(StyleDefault, "gray"))

\* C2 as stated: with a viewport of zero width or zero height, Draw writes cells of
\* the status-line row only.
C2_DegenerateWritesStatusRowOnly ==
    (vWidth = 0 \/ vHight = 0) => \A c \in DOMAIN screen : c[2] = statusPos

\* C3 as stated: once Draw has clamped the anchor of a non-empty document in a
\* viewport of non-zero height, 0 <= lineNum <= bottom + 1.
C3_AnchorWithinBottom ==
    pc \in {"header", "body"} => (0 <= lineNum /\ lineNum <= bottom + 1)

\* C3 amended: after the clamp the anchor is never negative and never above
\* bottom + 1, except that it is 0 when bottom + 1 is negative (the lower clamp is
\* applied last): 0 <= lineNum <= max(bottom + 1, 0).
C3_AnchorClamped ==
    pc \in {"header", "body"} => (0 <= lineNum /\ lineNum <= Max(bottom + 1, 0))

C3_Witness ==
    /\ pc = "body" /\ ~(y < vHight) /\ bottom + 1 < 0 /\ lineNum = 0 /\ Header > 0

\* The cell a header row shows at column c when it is drawn from cell offset off of
\* header line i: a closed form of the two drawing loops.
PinnedShown(i, off, c) ==
    LET contents == HeaderContents(i)
        j == c - startX
        from == IF WrapMode THEN off ELSE Max(x, minStartX)
    IN /\ j >= 0 /\ c < vWidth
       /\ from + j >= 0 /\ from + j < Len(contents)
       /\ WrapMode =>
            \A m \in 0..j : m + contents[from + m + 1].width + startX <= vWidth
PinnedCell(i, off, c) ==
    LET contents == HeaderContents(i)
        from == IF WrapMode THEN off ELSE Max(x, minStartX)
    IN SinkCell(contents[from + (c - startX) + 1].mainc,
                contents[from + (c - startX) + 1].style)
RowShows(r, i, off) ==
    \A c \in 0..(vWidth - 1) :
        IF PinnedShown(i, off, c)
        THEN <<c, r>> \in DOMAIN screen /\ screen[<<c, r>>] = PinnedCell(i, off, c)
        ELSE IF r < vHight
             THEN <<c, r>> \in DOMAIN screen /\ screen[<<c, r>>] = Blank
             ELSE <<c, r>> \notin DOMAIN screen

C6_EndOfDocumentRows ==
    \A r \in DOMAIN marks :
        marks[r].eofRead =>
            /\ <<0, r>> \in DOMAIN screen /\ screen[<<0, r>>] = Tilde
            /\ \A c \in 1..(vWidth - 1) : screen[<<c, r>>] = Blank
            /\ \A c \in DOMAIN screen : c[2] = r => (c[1] >= 0 /\ c[1] < Max(vWidth, 1))
            /\ (r + 1) \in DOMAIN marks => marks[r + 1].line = marks[r].line

C6_Witness ==
    /\ pc = "show" /\ LineNumMode /\ AlternateRows /\ vWidth = MaxWidth
    /\ \E r \in DOMAIN marks : marks[r].eofRead /\ (r + 1) \in DOMAIN marks
    /\ \E r \in DOMAIN marks : ~marks[r].eofRead

HasSuffix(seq) ==
    /\ Len(seq) >= 4
    /\ SubSeq(seq, Len(seq) - 3, Len(seq)) = <<".", ".", ".", ")">>

\* C8: whenever the status line is drawn, on the early exit too, the right segment
\* ends in "..." if and only if the document has not signaled end-of-input then.
C8_SuffixIffNotEOF ==
    [][(pc = "status" /\ pc' = "show") => (HasSuffix(status') <=> ~eof)]_vars

C8_Witness ==
    /\ pc = "show" /\ vHight = 0 /\ eof /\ ~HasSuffix(status) /\ Len(status) >= 5

\* C9 as stated, for the header loop: every iteration makes progress, to the next
\* logical line or to a later cell of the same line.
C9_HeaderLoopProgress ==
    [][(pc = "header" /\ hy' # hy) => (lY' > lY \/ lX' > lX)]_vars

\* C10 as stated: no '~' row appears above a row that shows document content.
TildeRow(r) == <<0, r>> \in DOMAIN screen /\ screen[<<0, r>>] = Tilde
ContentRow(r) ==
    /\ r \in DOMAIN marks /\ ~marks[r].eofRead
    /\ \E c \in 0..(vWidth - 1) : screen[<<c, r>>].mainc \notin {" ", "~"}
C10_NoTildeAboveContent ==
    \A r1, r2 \in 0..(vHight - 1) : r1 < r2 => ~(TildeRow(r1) /\ ContentRow(r2))

\* The logical lines the cycle has read and laid out on a row so far.
DrawnLines ==
    {marks[r].line : r \in {q \in DOMAIN marks : ~marks[q].eofRead}}
        \cup {hmarks[r].line : r \in DOMAIN hmarks}

\* C11: when the body loop of a draw cycle of a non-empty document on a
\* viewport at least one column wide ends,
\* bottomPos is a valid line number (below the number of lines) and is no
\* higher than the highest logical line laid out in that cycle, in wrap and
\* no-wrap mode, also when one wrapped logical line fills the whole body.
C11_BottomPosIsDrawnLine ==
    [][(pc = "body" /\ pc' = "status" /\ DrawnLines # {} /\ vWidth >= 1)
        => /\ bottomPos' < nlines'
           /\ \E n \in DrawnLines : bottomPos' <= n]_vars

(***************************************************************************)
(* Properties of the command (checked under SpecMain).                     *)
(***************************************************************************)
\* C12: when the command is started with a terminal as standard output,
\* os.Stdout and os.Stderr are nil from the call of the pager's Run until
\* Run has returned.  (STDOUTPIPE is set exactly when standard output was
\* found not to be a terminal.)
C12_SuppressedDuringRun ==
    (mpc \in {"Run", "running"} /\ STDOUTPIPE = Nil) => (Stdout = Nil /\ Stderr = Nil)

====
